---- MODULE Spec2Model ----
(***************************************************************************)
(* Model of src/src/executor/sauce.js: the Locks client (claim polling),   *)
(* the Tunnel supervisor (launcher retry with the process-wide             *)
(* connectFailures / BAILED state) and the executor facade hooks           *)
(* (setup, teardown, stage, wrapup, validateConfig).                       *)
(*                                                                         *)
(* Node runs every callback to completion, so each action below is one     *)
(* callback (with the promise reactions it triggers) or one facade call.   *)
(***************************************************************************)
EXTENDS Integers, Sequences, FiniteSets, TLC

\* ---------------------------------------------------------------- bounds
MaxSetups == 2          \* setup() calls modelled
MaxTeardowns == 2       \* teardown() calls modelled
MaxLaunches == 14       \* cap on sauceConnectLauncher invocations
MaxAcquires == 1        \* stage() calls made where polling runs with the clock
MaxConcurrent == 2      \* stage() calls made where the clock stands still
MaxRequests == 3        \* cap on claim requests of one acquire()
MaxTime == 3            \* last clock value (Date.now(), in abstract units)
MaxOutageTimeout == 1   \* largest locksOutageTimeout drawn
MaxPollingInterval == 1 \* largest locksPollingInterval drawn
MaxRequestTimeout == 1  \* largest locksRequestTimeout drawn

\* ------------------------------------------------------ program constants
MAX_CONNECT_RETRIES == 10
InitialConnectFailures == 1

Setups == 1..MaxSetups
Acquires == 1..MaxConcurrent

\* values of result.token in an accepted claim; "null" is JSON null (line 40)
Tokens == {"abc", "null"}

\* what the (error, response, body) of a claim request can be:
\*   transport   error is set (timeout, connection refused, ...)
\*   malformed   JSON.parse(body) throws
\*   empty       JSON.parse(body) is falsy (null, false, 0, "")
\*   unexpected  truthy, without a truthy accepted field, not a rejection
\*   rejected    {accepted: false, ...}
\*   accepted    {accepted: true, token: t}
ResponseKinds ==
  {"transport", "malformed", "empty", "unexpected", "rejected", "accepted"}

\* values handed to the acquire callback as its second argument
Undefined == [type |-> "undefined", token |-> "undefined"]
TokenObject(t) == [type |-> "object", token |-> t]

\* a string value, and the body { token } of a release request (lines 111-113)
StringValue(t) == [type |-> "string", token |-> t]
ReleaseBody(token) == [token |-> token]

\* how a release request can end: the callback of request() gets an error
\* (timeout, connection failure) or a response (2xx or an error status)
ReleaseOutcomes == {"success", "errorStatus", "timeout", "connectionFailure"}

VARIABLES
  \* config (module-level object) as the Tunnel / Locks constructors copy it
  username, accessKey, useTunnels, locksServerLocation,
  sauceTunnelId,             \* "none" | "supplied" | "generated"
  sharedSauceParentAccount,  \* by truthiness
  \* the last validateConfig call: "none" | "returned" | "threw", and its argv
  vcResult, vcArgs,
  \* the number of stage() calls the orchestrator makes (its worker count)
  stageBudget,
  \* module-level state
  connectFailures, BAILED, tunnel, locks,
  \* one entry per setup() call s; s is also the id of the Tunnel it builds
  sstate,        \* "none" | "download" | "initfailed" | "connecting" | "ended"
  callTunnel,    \* the Tunnel instance open() was called on (0: no call)
  retried,       \* connect() has been re-invoked from the launcher callback
  promise,       \* the promise open() returned
  outcome,       \* how the last connect() promise of the call settled
  setupPromise,  \* the promise setup() returned
  \* Tunnel instances and the subprocesses the launcher handed out
  tunnelInfo,    \* per Tunnel: 0 (null) or the call whose process it holds
  procState,     \* per call: "none" | "live" | "closing" | "closed"
  closeCalls,    \* per call: number of process.close() invocations
  pendingAcks,   \* per call: close callbacks not yet delivered
  teardowns,
  \* observation counters
  launches, retries, transientFailures,
  bailedAtOpen,  \* per call: the value of BAILED when open() was called
  \* remaining config fields (lines 262-264), in clock units
  locksOutageTimeout, locksPollingInterval, locksRequestTimeout,
  \* Locks side, one entry per acquire() call
  now,               \* Date.now()
  acqState,          \* "none" | "requesting" | "waiting" | "done"
  pollingStartTime,
  sentAt,            \* clock value when the outstanding request was posted
  timerAt,           \* clock value when setTimeout(poll, ...) was called
  requests,          \* claim requests posted by the call
  cbCalls,           \* invocations of the call's callback
  cbError,           \* first argument of the last invocation
  cbResult,          \* second argument of the last invocation
  reqAtCallback,     \* value of requests at the last invocation
  lastResp,          \* kind of the last claim response handled
  lastToken,         \* token of the last accepted response
  lastInWindow,      \* that response came with elapsed <= locksOutageTimeout
  inFlight,          \* claim requests posted and not yet answered
  acqLocks,          \* the Locks instance stage() called acquire() on
  \* Locks.release, one entry per wrapup() call (the one after stage() call a)
  relState,          \* "none" | "requesting" | "done"
  relBody,           \* body of the release request posted
  relCbCalls,        \* invocations of the wrapup callback
  relOutcome         \* "none" | how the release request ended

tunnelVars == <<connectFailures, BAILED, tunnel, sstate, callTunnel, retried,
                promise, outcome, setupPromise, tunnelInfo, procState,
                closeCalls, pendingAcks, teardowns, launches, retries,
                transientFailures, bailedAtOpen>>
configVars == <<username, accessKey, useTunnels, locksServerLocation, stageBudget,
                sauceTunnelId, sharedSauceParentAccount, vcResult, vcArgs,
                locksOutageTimeout, locksPollingInterval, locksRequestTimeout>>
lockVars == <<now, acqState, pollingStartTime, sentAt, timerAt,
              requests, cbCalls, cbError, cbResult, reqAtCallback, lastResp,
              lastToken, lastInWindow, inFlight, acqLocks>>
releaseVars == <<relState, relBody, relCbCalls, relOutcome>>
vars == <<configVars, locks, tunnelVars, lockVars, releaseVars>>

\* ------------------------------------------------------------ validateConfig

\* runOpts.argv by truthiness of sauce_tunnel_id, shared_sauce_parent_account,
\* sauce_create_tunnels and (sauce_browsers || sauce_browser)
ArgvOf(tid, shared, create, browsers) ==
  [sauce_tunnel_id |-> tid, shared_sauce_parent_account |-> shared,
   sauce_create_tunnels |-> create, sauce_browsers |-> browsers]

\* the fields of config that validateConfig does not assign keep the values
\* of lines 261-264 (here in clock units, see LockInit)
ConfigDefaults ==
  /\ username = FALSE
  /\ accessKey = FALSE
  /\ useTunnels = FALSE
  /\ locksServerLocation = FALSE
  /\ sauceTunnelId = "none"
  /\ sharedSauceParentAccount = FALSE
  /\ vcResult = "none"
  /\ vcArgs = ArgvOf(FALSE, FALSE, FALSE, FALSE)

\* the validation block (lines 383-414): TRUE when it throws
ValidationThrows(user, key, argv) ==
  /\ argv.sauce_browsers
  /\ \/ ~(user /\ key)
     \/ argv.sauce_create_tunnels /\ argv.sauce_tunnel_id
     \/ argv.sauce_create_tunnels /\ argv.shared_sauce_parent_account

\* lines 351, 416-421: the identifier config ends up with
TunnelIdAfter(argv, threw) ==
  IF ~threw /\ argv.sauce_browsers /\ ~argv.sauce_tunnel_id
     /\ argv.sauce_create_tunnels
  THEN "generated"
  ELSE IF argv.sauce_tunnel_id THEN "supplied" ELSE "none"

\* validateConfig (lines 341-430); user, key, locksEnv are the truthiness of
\* SAUCE_USERNAME, SAUCE_ACCESS_KEY and LOCKS_SERVER in env. The fields it
\* assigns before the validation block stay assigned when it throws.
ValidateConfig(user, key, locksEnv, argv) ==
  LET threw == ValidationThrows(user, key, argv) IN
  /\ username' = user
  /\ accessKey' = key
  /\ sharedSauceParentAccount' = argv.shared_sauce_parent_account
  /\ useTunnels' = argv.sauce_create_tunnels
  /\ locksServerLocation' = locksEnv
  /\ sauceTunnelId' = TunnelIdAfter(argv, threw)
  /\ vcArgs' = argv
  /\ vcResult' = IF threw THEN "threw" ELSE "returned"
  /\ UNCHANGED <<stageBudget, locksOutageTimeout, locksPollingInterval,
                 locksRequestTimeout, locks, tunnelVars, lockVars,
                 releaseVars>>

\* ------------------------------------------------------------ Tunnel side

\* new Promise(...) settled through resolve / reject of a connect() call.
\* open() returns the promise of the FIRST connect(); the promise of a
\* connect() re-invoked from the launcher callback (line 217) is returned to
\* the launcher and dropped, so settling it reaches nobody.
SettledAs(s, res) ==
  IF retried[s] THEN promise[s] ELSE res

\* setup()'s chain (lines 281-297): fulfilled after open() fulfils; the catch
\* handler returns new Promise((reject) => reject(err)), whose first executor
\* argument is the resolve function, so the chain fulfils with the error.
SetupSettledAs(s, res) ==
  IF retried[s] THEN setupPromise[s]
  ELSE IF res = "fulfilled" THEN "fulfilled" ELSE "fulfilled_err"

\* variant: the threshold is met one failure late (> for >=)
ThresholdReached_Late(n) == n > MAX_CONNECT_RETRIES

\* variant: the threshold test never succeeds
ThresholdReached_Never(n) == FALSE

\* line 207
ThresholdReached(n) == n >= MAX_CONNECT_RETRIES

\* setup (lines 274-308) together with the synchronous part of
\* Tunnel.initialize (lines 132-141).
Setup ==
  /\ locks < MaxSetups
  /\ LET s == locks + 1 IN
     /\ locks' = s
     /\ IF useTunnels
        THEN /\ tunnel' = s
             /\ IF username /\ accessKey
                THEN /\ sstate' = [sstate EXCEPT ![s] = "download"]
                     /\ setupPromise' = [setupPromise EXCEPT ![s] = "pending"]
                ELSE /\ sstate' = [sstate EXCEPT ![s] = "initfailed"]
                     /\ setupPromise' = [setupPromise EXCEPT ![s] = "fulfilled_err"]
        ELSE /\ setupPromise' = [setupPromise EXCEPT ![s] = "fulfilled"]
             /\ UNCHANGED <<tunnel, sstate>>
  /\ UNCHANGED <<configVars, releaseVars, lockVars, connectFailures, BAILED, callTunnel, retried,
                 promise, outcome, tunnelInfo, procState, closeCalls,
                 pendingAcks, teardowns, launches, retries, transientFailures,
                 bailedAtOpen>>

\* The sauceConnectLauncher.download callback (lines 146-158) and, when it
\* resolves, the reaction of setup that calls tunnel.open() (lines 283-286,
\* 163-192) on the Tunnel the module variable refers to at that moment.
DownloadCallback(s, err) ==
  /\ sstate[s] = "download"
  /\ IF err
     THEN /\ sstate' = [sstate EXCEPT ![s] = "initfailed"]
          /\ setupPromise' = [setupPromise EXCEPT ![s] = "fulfilled_err"]
          /\ UNCHANGED <<callTunnel, promise, tunnelInfo, launches,
                         bailedAtOpen>>
     ELSE /\ launches < MaxLaunches
          /\ sstate' = [sstate EXCEPT ![s] = "connecting"]
          /\ callTunnel' = [callTunnel EXCEPT ![s] = tunnel]
          /\ tunnelInfo' = [tunnelInfo EXCEPT ![tunnel] = 0]
          /\ promise' = [promise EXCEPT ![s] = "pending"]
          /\ launches' = launches + 1
          /\ bailedAtOpen' = [bailedAtOpen EXCEPT ![s] = BAILED]
          /\ UNCHANGED setupPromise
  /\ UNCHANGED <<configVars, releaseVars, lockVars, locks, connectFailures, BAILED, tunnel, retried,
                 outcome, procState, closeCalls, pendingAcks, teardowns,
                 retries, transientFailures>>

\* variant: a successful launch closes the circuit again
LauncherSuccess_Reset(s) ==
  /\ sstate[s] = "connecting"
  /\ tunnelInfo' = [tunnelInfo EXCEPT ![callTunnel[s]] = s]
  /\ procState' = [procState EXCEPT ![s] = "live"]
  /\ sstate' = [sstate EXCEPT ![s] = "ended"]
  /\ outcome' = [outcome EXCEPT ![s] = "open"]
  /\ promise' = [promise EXCEPT ![s] = SettledAs(s, "fulfilled")]
  /\ setupPromise' = [setupPromise EXCEPT ![s] = SetupSettledAs(s, "fulfilled")]
  /\ BAILED' = FALSE
  /\ UNCHANGED <<configVars, releaseVars, lockVars, locks, connectFailures, tunnel,
                 callTunnel, retried, closeCalls, pendingAcks, teardowns,
                 launches, retries, transientFailures, bailedAtOpen>>

\* launcher callback, success branch (lines 220-223)
LauncherSuccess(s) ==
  /\ sstate[s] = "connecting"
  /\ tunnelInfo' = [tunnelInfo EXCEPT ![callTunnel[s]] = s]
  /\ procState' = [procState EXCEPT ![s] = "live"]
  /\ sstate' = [sstate EXCEPT ![s] = "ended"]
  /\ outcome' = [outcome EXCEPT ![s] = "open"]
  /\ promise' = [promise EXCEPT ![s] = SettledAs(s, "fulfilled")]
  /\ setupPromise' = [setupPromise EXCEPT ![s] = SetupSettledAs(s, "fulfilled")]
  /\ UNCHANGED <<configVars, releaseVars, lockVars, locks, connectFailures, BAILED, tunnel,
                 callTunnel, retried, closeCalls, pendingAcks, teardowns,
                 launches, retries, transientFailures, bailedAtOpen>>

\* variant: the process argument of the callback is stored before the error
\* is looked at
LauncherFatal_KeepsHandle(s) ==
  /\ sstate[s] = "connecting"
  /\ sstate' = [sstate EXCEPT ![s] = "ended"]
  /\ outcome' = [outcome EXCEPT ![s] = "fatal"]
  /\ promise' = [promise EXCEPT ![s] = SettledAs(s, "fatal")]
  /\ setupPromise' = [setupPromise EXCEPT ![s] = SetupSettledAs(s, "fatal")]
  /\ tunnelInfo' = [tunnelInfo EXCEPT ![callTunnel[s]] = s]
  /\ UNCHANGED <<configVars, releaseVars, lockVars, locks, connectFailures, BAILED, tunnel,
                 callTunnel, retried, procState, closeCalls,
                 pendingAcks, teardowns, launches, retries, transientFailures,
                 bailedAtOpen>>

\* launcher callback, "Could not start Sauce Connect" branch (lines 197-198)
LauncherFatal(s) ==
  /\ sstate[s] = "connecting"
  /\ sstate' = [sstate EXCEPT ![s] = "ended"]
  /\ outcome' = [outcome EXCEPT ![s] = "fatal"]
  /\ promise' = [promise EXCEPT ![s] = SettledAs(s, "fatal")]
  /\ setupPromise' = [setupPromise EXCEPT ![s] = SetupSettledAs(s, "fatal")]
  /\ UNCHANGED <<configVars, releaseVars, lockVars, locks, connectFailures, BAILED, tunnel,
                 callTunnel, retried, tunnelInfo, procState, closeCalls,
                 pendingAcks, teardowns, launches, retries, transientFailures,
                 bailedAtOpen>>

\* The end of a call's connect() chain with a rejection.
RejectWith(s, res) ==
  /\ sstate' = [sstate EXCEPT ![s] = "ended"]
  /\ outcome' = [outcome EXCEPT ![s] = res]
  /\ promise' = [promise EXCEPT ![s] = SettledAs(s, res)]
  /\ setupPromise' = [setupPromise EXCEPT ![s] = SetupSettledAs(s, res)]
  /\ UNCHANGED <<retried, launches, retries>>

\* return connect() (line 217): one more launcher invocation; the promise it
\* creates is not linked to the one open() returned.
Reconnect(s) ==
  /\ launches < MaxLaunches
  /\ retried' = [retried EXCEPT ![s] = TRUE]
  /\ launches' = launches + 1
  /\ retries' = retries + 1
  /\ UNCHANGED <<sstate, outcome, promise, setupPromise>>

\* variant: the flag is ignored and the call reconnects
WhenBailed_Reconnect(s) ==
  /\ UNCHANGED BAILED
  /\ Reconnect(s)

\* lines 199-203: the flag is already set
WhenBailed(s) ==
  /\ UNCHANGED BAILED
  /\ RejectWith(s, "bailed")

\* lines 204-218: the flag is not set
WhenNotBailed(s) ==
  IF ThresholdReached(connectFailures')
  THEN /\ BAILED' = TRUE
       /\ RejectWith(s, "exhausted")
  ELSE /\ UNCHANGED BAILED
       /\ Reconnect(s)

\* launcher callback, any other error (lines 199-219)
LauncherTransient(s) ==
  /\ sstate[s] = "connecting"
  /\ connectFailures' = connectFailures + 1
  /\ transientFailures' = transientFailures + 1
  /\ IF BAILED THEN WhenBailed(s) ELSE WhenNotBailed(s)
  /\ UNCHANGED <<configVars, releaseVars, lockVars, locks, tunnel, callTunnel, tunnelInfo,
                 procState, closeCalls, pendingAcks, teardowns, bailedAtOpen>>

\* teardown (lines 310-323) with Tunnel.close (lines 231-243)
Teardown ==
  /\ teardowns < MaxTeardowns
  /\ teardowns' = teardowns + 1
  /\ IF tunnel # 0 /\ useTunnels /\ tunnelInfo[tunnel] # 0
     THEN LET p == tunnelInfo[tunnel] IN
          /\ closeCalls' = [closeCalls EXCEPT ![p] = @ + 1]
          /\ pendingAcks' = [pendingAcks EXCEPT ![p] = @ + 1]
          /\ procState' = [procState EXCEPT ![p] =
                             IF @ = "live" THEN "closing" ELSE @]
     ELSE UNCHANGED <<closeCalls, pendingAcks, procState>>
  /\ UNCHANGED <<configVars, releaseVars, lockVars, locks, connectFailures, BAILED, tunnel, sstate,
                 callTunnel, retried, promise, outcome, setupPromise,
                 tunnelInfo, launches, retries, transientFailures,
                 bailedAtOpen>>

\* the callback given to process.close (lines 235-237)
CloseAck(p) ==
  /\ pendingAcks[p] > 0
  /\ pendingAcks' = [pendingAcks EXCEPT ![p] = @ - 1]
  /\ procState' = [procState EXCEPT ![p] = "closed"]
  /\ UNCHANGED <<configVars, releaseVars, lockVars, locks, connectFailures, BAILED, tunnel, sstate,
                 callTunnel, retried, promise, outcome, setupPromise,
                 tunnelInfo, closeCalls, teardowns, launches, retries,
                 transientFailures, bailedAtOpen>>

\* State after the module is loaded (lines 17-21, 267-268), no stage() call
\* made yet.
ModuleInit ==
  /\ now = 0
  /\ acqState = [a \in Acquires |-> "none"]
  /\ pollingStartTime = [a \in Acquires |-> 0]
  /\ sentAt = [a \in Acquires |-> 0]
  /\ timerAt = [a \in Acquires |-> 0]
  /\ requests = [a \in Acquires |-> 0]
  /\ cbCalls = [a \in Acquires |-> 0]
  /\ cbError = [a \in Acquires |-> "none"]
  /\ cbResult = [a \in Acquires |-> Undefined]
  /\ reqAtCallback = [a \in Acquires |-> 0]
  /\ lastResp = [a \in Acquires |-> "none"]
  /\ lastToken = [a \in Acquires |-> "undefined"]
  /\ lastInWindow = [a \in Acquires |-> FALSE]
  /\ inFlight = [a \in Acquires |-> 0]
  /\ acqLocks = [a \in Acquires |-> 0]
  /\ relState = [a \in Acquires |-> "none"]
  /\ relBody = [a \in Acquires |-> ReleaseBody(Undefined)]
  /\ relCbCalls = [a \in Acquires |-> 0]
  /\ relOutcome = [a \in Acquires |-> "none"]
  /\ connectFailures = InitialConnectFailures
  /\ BAILED = FALSE
  /\ tunnel = 0
  /\ locks = 0
  /\ sstate = [s \in Setups |-> "none"]
  /\ callTunnel = [s \in Setups |-> 0]
  /\ retried = [s \in Setups |-> FALSE]
  /\ promise = [s \in Setups |-> "none"]
  /\ outcome = [s \in Setups |-> "none"]
  /\ setupPromise = [s \in Setups |-> "none"]
  /\ tunnelInfo = [t \in Setups |-> 0]
  /\ procState = [s \in Setups |-> "none"]
  /\ closeCalls = [s \in Setups |-> 0]
  /\ pendingAcks = [s \in Setups |-> 0]
  /\ teardowns = 0
  /\ launches = 0
  /\ retries = 0
  /\ transientFailures = 0
  /\ bailedAtOpen = [s \in Setups |-> FALSE]

\* The config object (lines 246-265) as validateConfig leaves it: each of
\* username, accessKey, useTunnels, locksServerLocation by its truthiness.
\* Init is a process that creates tunnels and uses no locks server.
Init ==
  /\ ModuleInit
  /\ username \in BOOLEAN
  /\ accessKey \in BOOLEAN
  /\ useTunnels \in BOOLEAN
  /\ locksServerLocation = FALSE
  /\ sauceTunnelId = (IF useTunnels THEN "generated" ELSE "supplied")
  /\ sharedSauceParentAccount = FALSE
  /\ vcResult = "returned"
  /\ vcArgs = ArgvOf(~useTunnels, FALSE, useTunnels, TRUE)
  /\ stageBudget = MaxAcquires
  /\ locksOutageTimeout = MaxOutageTimeout
  /\ locksPollingInterval = MaxPollingInterval
  /\ locksRequestTimeout = MaxRequestTimeout

Next ==
  \/ Setup
  \/ \E s \in Setups, err \in BOOLEAN : DownloadCallback(s, err)
  \/ \E s \in Setups : LauncherSuccess(s)
  \/ \E s \in Setups : LauncherFatal(s)
  \/ \E s \in Setups : LauncherTransient(s)
  \/ Teardown
  \/ \E p \in Setups : CloseAck(p)

Spec == Init /\ [][Next]_vars

\* The module as loaded, before validateConfig has run.
ConfigInit ==
  /\ ModuleInit
  /\ ConfigDefaults
  /\ stageBudget = MaxAcquires
  /\ locksOutageTimeout = MaxOutageTimeout
  /\ locksPollingInterval = MaxPollingInterval
  /\ locksRequestTimeout = MaxRequestTimeout

ConfigNext ==
  \/ \E user, key, locksEnv, tid, shared, create, browsers \in BOOLEAN :
       ValidateConfig(user, key, locksEnv, ArgvOf(tid, shared, create, browsers))
  \/ Setup

ConfigSpec == ConfigInit /\ [][ConfigNext]_vars

\* -------------------------------------------------------------- Locks side

\* Date.now() - pollingStartTime > this.options.locksOutageTimeout (line 85)
OutageExceeded(a) == now - pollingStartTime[a] > locksOutageTimeout

\* poll (lines 45-52): post one claim request
Poll(a) ==
  /\ requests[a] < MaxRequests
  /\ acqState' = [acqState EXCEPT ![a] = "requesting"]
  /\ sentAt' = [sentAt EXCEPT ![a] = now]
  /\ requests' = [requests EXCEPT ![a] = @ + 1]
  /\ inFlight' = [inFlight EXCEPT ![a] = @ + 1]

\* callback(err, result): the caller's continuation runs and returns
Callback(a, err, result) ==
  /\ cbCalls' = [cbCalls EXCEPT ![a] = @ + 1]
  /\ cbError' = [cbError EXCEPT ![a] = err]
  /\ cbResult' = [cbResult EXCEPT ![a] = result]
  /\ reqAtCallback' = [reqAtCallback EXCEPT ![a] = requests[a]]

\* return callback(...) out of the try block (lines 55, 63, 67, 70)
ReturnCallback(a, err, result) ==
  /\ Callback(a, err, result)
  /\ acqState' = [acqState EXCEPT ![a] = "done"]
  /\ UNCHANGED timerAt

\* the catch block (lines 73-95)
Tolerate(a) ==
  IF OutageExceeded(a)
  THEN ReturnCallback(a, "gaveup", Undefined)
  ELSE /\ acqState' = [acqState EXCEPT ![a] = "waiting"]
       /\ timerAt' = [timerAt EXCEPT ![a] = now]
       /\ UNCHANGED <<cbCalls, cbError, cbResult, reqAtCallback>>

\* variant: the callback is invoked without leaving the handler, which goes
\* on to schedule the next poll
OnAccepted_NoReturn(a, tok) ==
  /\ Callback(a, "null", TokenObject(tok))
  /\ acqState' = [acqState EXCEPT ![a] = "waiting"]
  /\ timerAt' = [timerAt EXCEPT ![a] = now]

\* lines 60-63
OnAccepted(a, tok) ==
  ReturnCallback(a, "null", TokenObject(tok))

\* the try block (lines 53-72) by kind of response
HandleResponse(a, kind, tok) ==
  CASE kind = "transport"  -> ReturnCallback(a, "transport", Undefined)
    [] kind = "malformed"  -> Tolerate(a)
    [] kind = "empty"      -> ReturnCallback(a, "invalid", Undefined)
    [] kind = "unexpected" -> ReturnCallback(a, "notaccepted", Undefined)
    [] kind = "rejected"   -> ReturnCallback(a, "notaccepted", Undefined)
    [] kind = "accepted"   -> OnAccepted(a, tok)

\* stage (lines 325-327) with Locks.acquire (lines 33-44, 99-102)
Stage(a) ==
  /\ acqState[a] = "none"
  /\ a <= stageBudget
  /\ locks # 0
  /\ acqLocks' = [acqLocks EXCEPT ![a] = locks]
  /\ IF locksServerLocation
     THEN /\ pollingStartTime' = [pollingStartTime EXCEPT ![a] = now]
          /\ Poll(a)
          /\ UNCHANGED <<timerAt, cbCalls, cbError, cbResult, reqAtCallback>>
     ELSE /\ ReturnCallback(a, "undefined", Undefined)
          /\ UNCHANGED <<pollingStartTime, sentAt, requests, inFlight>>
  /\ UNCHANGED <<configVars, releaseVars, locks, tunnelVars, now, lastResp, lastToken,
                 lastInWindow>>

\* the callback of request.post (lines 52-96). The request library reports a
\* timeout as an error once locksRequestTimeout has passed; any other
\* response arrives before that.
ClaimResponse(a, kind, tok) ==
  /\ acqState[a] = "requesting"
  /\ kind # "transport" => now - sentAt[a] <= locksRequestTimeout
  /\ kind # "accepted" => tok = "undefined"
  /\ lastResp' = [lastResp EXCEPT ![a] = kind]
  /\ lastToken' = [lastToken EXCEPT ![a] = tok]
  /\ lastInWindow' = [lastInWindow EXCEPT ![a] = ~OutageExceeded(a)]
  /\ inFlight' = [inFlight EXCEPT ![a] = @ - 1]
  /\ HandleResponse(a, kind, tok)
  /\ UNCHANGED <<configVars, releaseVars, locks, tunnelVars, now,
                 pollingStartTime, sentAt, requests, acqLocks>>

\* variant: the timer keeps firing (setInterval for setTimeout), also while
\* the request of an earlier firing is outstanding
TimerFires_Interval(a) ==
  /\ \/ acqState[a] = "waiting"
     \/ acqState[a] = "requesting" /\ requests[a] >= 2
  /\ now >= timerAt[a] + locksPollingInterval
  /\ Poll(a)
  /\ UNCHANGED <<configVars, releaseVars, locks, tunnelVars, now,
                 pollingStartTime, timerAt, cbCalls, cbError, cbResult,
                 reqAtCallback, lastResp, lastToken, lastInWindow, acqLocks>>

\* the timer set at line 93 fires and runs poll
TimerFires(a) ==
  /\ acqState[a] = "waiting"
  /\ now >= timerAt[a] + locksPollingInterval
  /\ Poll(a)
  /\ UNCHANGED <<configVars, releaseVars, locks, tunnelVars, now,
                 pollingStartTime, timerAt, cbCalls, cbError, cbResult,
                 reqAtCallback, lastResp, lastToken, lastInWindow, acqLocks>>

\* time passes
Tick ==
  /\ now < MaxTime
  /\ now' = now + 1
  /\ UNCHANGED <<configVars, releaseVars, locks, tunnelVars, acqState,
                 pollingStartTime, sentAt, timerAt, requests, cbCalls,
                 cbError, cbResult, reqAtCallback, lastResp, lastToken,
                 lastInWindow, inFlight, acqLocks>>

\* the callback given to release (wrapup's callback) runs
ReleaseCallback(a) ==
  relCbCalls' = [relCbCalls EXCEPT ![a] = @ + 1]

\* variant: the release request is posted whether or not a locks server is
\* configured
Wrapup_AlwaysPosts(a) ==
  /\ relState[a] = "none"
  /\ cbCalls[a] > 0
  /\ locks # 0
  /\ relState' = [relState EXCEPT ![a] = "requesting"]
  /\ relBody' = [relBody EXCEPT ![a] = ReleaseBody(cbResult[a])]
  /\ UNCHANGED relCbCalls
  /\ UNCHANGED <<configVars, locks, tunnelVars, lockVars, relOutcome>>

\* wrapup (lines 329-331) with Locks.release (lines 105-124), called with
\* the value stage() call a delivered to its callback
Wrapup(a) ==
  /\ relState[a] = "none"
  /\ cbCalls[a] > 0
  /\ locks # 0
  /\ IF locksServerLocation
     THEN /\ relState' = [relState EXCEPT ![a] = "requesting"]
          /\ relBody' = [relBody EXCEPT ![a] = ReleaseBody(cbResult[a])]
          /\ UNCHANGED relCbCalls
     ELSE /\ relState' = [relState EXCEPT ![a] = "done"]
          /\ ReleaseCallback(a)
          /\ UNCHANGED relBody
  /\ UNCHANGED <<configVars, locks, tunnelVars, lockVars, relOutcome>>

\* variant: the callback is passed on only when the request reports no error
ReleaseResponse_ErrorDropped(a, how) ==
  /\ relState[a] = "requesting"
  /\ relState' = [relState EXCEPT ![a] = "done"]
  /\ relOutcome' = [relOutcome EXCEPT ![a] = how]
  /\ IF how \in {"timeout", "connectionFailure"}
     THEN UNCHANGED relCbCalls
     ELSE ReleaseCallback(a)
  /\ UNCHANGED <<configVars, locks, tunnelVars, lockVars, relBody>>

\* the callback of the release request (lines 115-120), whatever it is
\* called with
ReleaseResponse(a, how) ==
  /\ relState[a] = "requesting"
  /\ relState' = [relState EXCEPT ![a] = "done"]
  /\ relOutcome' = [relOutcome EXCEPT ![a] = how]
  /\ ReleaseCallback(a)
  /\ UNCHANGED <<configVars, locks, tunnelVars, lockVars, relBody>>

\* A process that uses a locks server and an existing tunnel pool.
LockInit ==
  /\ ModuleInit
  /\ username = TRUE
  /\ accessKey = TRUE
  /\ useTunnels = FALSE
  /\ locksServerLocation \in BOOLEAN
  /\ sauceTunnelId = "supplied"
  /\ sharedSauceParentAccount = FALSE
  /\ vcResult = "returned"
  /\ vcArgs = ArgvOf(TRUE, FALSE, FALSE, TRUE)
  /\ stageBudget = MaxAcquires
  /\ locksOutageTimeout \in 0..MaxOutageTimeout
  /\ locksPollingInterval = MaxPollingInterval
  /\ locksRequestTimeout = MaxRequestTimeout

LockNext ==
  \/ Setup
  \/ \E a \in Acquires : Stage(a)
  \/ \E a \in Acquires, kind \in ResponseKinds, tok \in Tokens \cup {"undefined"} :
       ClaimResponse(a, kind, tok)
  \/ \E a \in Acquires : TimerFires(a)
  \/ Tick

LockSpec == LockInit /\ [][LockNext]_vars

\* the arguments the try block hands to the callback, by kind of response
\* (lines 55, 63, 67, 70)
ErrorFor(kind) ==
  CASE kind = "transport"  -> "transport"
    [] kind = "empty"      -> "invalid"
    [] kind = "unexpected" -> "notaccepted"
    [] kind = "rejected"   -> "notaccepted"
    [] kind = "accepted"   -> "null"

ResultFor(kind, tok) ==
  IF kind = "accepted" THEN TokenObject(tok) ELSE Undefined

\* the callback of request.post (lines 52-96) when the callback invoked in
\* the try block throws: the exception lands in the catch block, which
\* either invokes the callback a second time (line 87) or sets the timer
\* for another poll (line 93).
ClaimResponseThrows(a, kind, tok) ==
  /\ acqState[a] = "requesting"
  /\ kind # "malformed"
  /\ kind # "transport" => now - sentAt[a] <= locksRequestTimeout
  /\ kind # "accepted" => tok = "undefined"
  /\ lastResp' = [lastResp EXCEPT ![a] = kind]
  /\ lastToken' = [lastToken EXCEPT ![a] = tok]
  /\ lastInWindow' = [lastInWindow EXCEPT ![a] = ~OutageExceeded(a)]
  /\ inFlight' = [inFlight EXCEPT ![a] = @ - 1]
  /\ reqAtCallback' = [reqAtCallback EXCEPT ![a] = requests[a]]
  /\ IF OutageExceeded(a)
     THEN /\ cbCalls' = [cbCalls EXCEPT ![a] = @ + 2]
          /\ cbError' = [cbError EXCEPT ![a] = "gaveup"]
          /\ cbResult' = [cbResult EXCEPT ![a] = Undefined]
          /\ acqState' = [acqState EXCEPT ![a] = "done"]
          /\ UNCHANGED timerAt
     ELSE /\ cbCalls' = [cbCalls EXCEPT ![a] = @ + 1]
          /\ cbError' = [cbError EXCEPT ![a] = ErrorFor(kind)]
          /\ cbResult' = [cbResult EXCEPT ![a] = ResultFor(kind, tok)]
          /\ acqState' = [acqState EXCEPT ![a] = "waiting"]
          /\ timerAt' = [timerAt EXCEPT ![a] = now]
  /\ UNCHANGED <<configVars, releaseVars, locks, tunnelVars, now,
                 pollingStartTime, sentAt, requests, acqLocks>>

\* LockSpec with callbacks that may throw
ThrowNext ==
  \/ Setup
  \/ \E a \in Acquires : Stage(a)
  \/ \E a \in Acquires, kind \in ResponseKinds, tok \in Tokens \cup {"undefined"} :
       ClaimResponse(a, kind, tok)
  \/ \E a \in Acquires, kind \in ResponseKinds, tok \in Tokens \cup {"undefined"} :
       ClaimResponseThrows(a, kind, tok)
  \/ \E a \in Acquires : TimerFires(a)
  \/ Tick

ThrowSpec == LockInit /\ [][ThrowNext]_vars

\* Claim and release with the clock standing still: every call is answered
\* in the clock unit it was made in, and the timer of line 93 runs with
\* locksPollingInterval 0.
StillInit(budget) ==
  /\ ModuleInit
  /\ username = TRUE
  /\ accessKey = TRUE
  /\ useTunnels = FALSE
  /\ locksServerLocation \in BOOLEAN
  /\ sauceTunnelId = "supplied"
  /\ sharedSauceParentAccount = FALSE
  /\ vcResult = "returned"
  /\ vcArgs = ArgvOf(TRUE, FALSE, FALSE, TRUE)
  /\ stageBudget = budget
  /\ locksOutageTimeout = MaxOutageTimeout
  /\ locksPollingInterval = 0
  /\ locksRequestTimeout = MaxRequestTimeout

ReleaseNext ==
  \/ Setup
  \/ \E a \in Acquires : Stage(a)
  \/ \E a \in Acquires, kind \in ResponseKinds, tok \in Tokens \cup {"undefined"} :
       ClaimResponse(a, kind, tok)
  \/ \E a \in Acquires : TimerFires(a)
  \/ \E a \in Acquires : Wrapup(a)
  \/ \E a \in Acquires, how \in ReleaseOutcomes : ReleaseResponse(a, how)

ReleaseInit == StillInit(MaxAcquires)

ReleaseSpec == ReleaseInit /\ [][ReleaseNext]_vars

\* Several stage() calls polling side by side, the clock standing still.
SeqInit == StillInit(MaxConcurrent)

SeqNext ==
  \/ Setup
  \/ \E a \in Acquires : Stage(a)
  \/ \E a \in Acquires, kind \in ResponseKinds, tok \in Tokens \cup {"undefined"} :
       ClaimResponse(a, kind, tok)
  \/ \E a \in Acquires : TimerFires(a)

SeqSpec == SeqInit /\ [][SeqNext]_vars

\* ------------------------------------------------- properties, Tunnel side

\* C1 as stated: once BAILED is true no launcher invocation is made any
\* more, so no call ends with an open tunnel from then on.
C1_NoLaunchOnceOpen ==
  [][BAILED => /\ launches' = launches
               /\ \A s \in Setups : outcome'[s] = "open" => outcome[s] = "open"]_vars

\* C1 amended: once BAILED is true no call reconnects. A non-fatal launcher
\* error then ends the call with the "bailed" rejection and no launcher
\* invocation (open()'s promise carries it when the attempt was the call's
\* first); the only launcher invocations left are first attempts of new
\* open() calls.
C1_NoRetryOnceOpen ==
  [][BAILED =>
       /\ retries' = retries
       /\ retried' = retried
       /\ launches' # launches =>
            \E s \in Setups : /\ sstate[s] = "download"
                              /\ sstate'[s] = "connecting"
                              /\ launches' = launches + 1
       /\ transientFailures' # transientFailures =>
            \E s \in Setups : /\ sstate[s] = "connecting"
                              /\ sstate'[s] = "ended"
                              /\ outcome'[s] = "bailed"
                              /\ ~retried[s] => promise'[s] = "bailed"
                              /\ launches' = launches]_vars

\* C1 witness: the circuit is open and a call that was in flight when it
\* opened, and had reconnected before, was ended by the "bailed" rejection.
C1_Witness ==
  /\ BAILED
  /\ \E s \in Setups : /\ outcome[s] = "bailed"
                       /\ retried[s]
                       /\ ~bailedAtOpen[s]

\* C2 as stated: the circuit is closed before the MAX_CONNECT_RETRIES-th
\* transient failure and open from it on.
C2_OpensOnMaxthFailure ==
  BAILED <=> transientFailures >= MAX_CONNECT_RETRIES

\* C3 as stated, on finished calls: when the launcher has given its last
\* report for an open() call, the promise open() returned is settled with
\* the outcome of that report.
C3_EndedCallSettled ==
  \A s \in Setups :
    sstate[s] = "ended" =>
      promise[s] = (IF outcome[s] = "open" THEN "fulfilled" ELSE outcome[s])

\* C4: the number of reconnects made by all calls together never exceeds
\* MAX_CONNECT_RETRIES.
C4_SharedRetryBudget ==
  retries <= MAX_CONNECT_RETRIES

\* C4 witness: two calls have both reconnected and the circuit is open.
C4_Witness ==
  /\ BAILED
  /\ \E s1, s2 \in Setups : s1 # s2 /\ retried[s1] /\ retried[s2]
  /\ retries >= 2

\* C5 as stated: a "could not start" report rejects the promise of open()
\* in the same step, starts no launcher and leaves connectFailures and
\* BAILED alone.
C5_FatalRejectsAtOnce ==
  [][\A s \in Setups :
       (sstate[s] = "connecting" /\ outcome'[s] = "fatal") =>
          /\ promise'[s] = "fatal"
          /\ launches' = launches
          /\ connectFailures' = connectFailures
          /\ BAILED' = BAILED]_vars

\* C6: BAILED never goes back from true to false.
C6_Latch ==
  [][BAILED => BAILED']_vars

\* C6 witness: with the circuit open, a call started afterwards has opened
\* its tunnel and teardown has closed the subprocess.
C6_Witness ==
  /\ BAILED
  /\ \E s \in Setups : /\ bailedAtOpen[s]
                       /\ outcome[s] = "open"
                       /\ procState[s] = "closed"
  /\ locks = MaxSetups

\* -------------------------------------------------- properties, Locks side

ErrorKinds == {"transport", "malformed", "empty", "unexpected"}

\* the call has reported nothing and is between two claim requests or has
\* posted the next one
StillPolling(a) ==
  /\ cbCalls[a] = 0
  /\ acqState[a] \in {"waiting", "requesting"}

\* C7 as stated: after a transport failure, a malformed body or an empty /
\* unexpected body handled inside the outage window, the callback has not
\* been invoked and the call goes on polling.
C7_ErrorsTolerated ==
  \A a \in Acquires :
    (lastResp[a] \in ErrorKinds /\ lastInWindow[a]) => StillPolling(a)

\* C8 as stated: after an {accepted: false} response handled inside the
\* outage window, the callback has not been invoked and the call goes on
\* polling.
C8_RejectionTolerated ==
  \A a \in Acquires :
    (lastResp[a] = "rejected" /\ lastInWindow[a]) => StillPolling(a)

\* C9 as stated: after any retryable response handled with the outage window
\* exceeded, the call has ended with the "gave up" error and posts nothing
\* more.
C9_GivesUpAfterOutage ==
  \A a \in Acquires :
    (lastResp[a] \in ErrorKinds \cup {"rejected"} /\ ~lastInWindow[a]) =>
       /\ acqState[a] = "done"
       /\ cbError[a] = "gaveup"
       /\ requests[a] = reqAtCallback[a]

C11_ReleaseCallsBackOnce ==
  \A a \in Acquires :
    relCbCalls[a] = (IF relState[a] = "done" THEN 1 ELSE 0)

\* C11 witness: a release request timed out and the callback has run once.
C11_Witness ==
  \E a \in Acquires :
    /\ relState[a] = "done"
    /\ relOutcome[a] = "timeout"
    /\ relCbCalls[a] = 1

\* C12: without a locks server no claim or release request is ever posted;
\* acquire() has called back once, with no error and no token, as soon as it
\* was called, and release() likewise.
C12_NoServerNoRequest ==
  ~locksServerLocation =>
    \A a \in Acquires :
      /\ requests[a] = 0
      /\ inFlight[a] = 0
      /\ acqState[a] \in {"none", "done"}
      /\ acqState[a] = "done" =>
           cbCalls[a] = 1 /\ cbError[a] = "undefined" /\ cbResult[a] = Undefined
      /\ relState[a] \in {"none", "done"}
      /\ relState[a] = "done" => relCbCalls[a] = 1 /\ relOutcome[a] = "none"

\* C12 witness: without a locks server, stage() and wrapup() have both run.
C12_Witness ==
  /\ ~locksServerLocation
  /\ \E a \in Acquires : acqState[a] = "done" /\ relState[a] = "done"

\* C13 as stated: when the value of an accepted claim is handed on to
\* wrapup(), the release request body is { token: t } with t the token
\* string of the claim response.
C13_ReleaseBodyCarriesToken ==
  \A a \in Acquires :
    (relState[a] # "none" /\ locksServerLocation /\ lastResp[a] = "accepted") =>
       relBody[a] = ReleaseBody(StringValue(lastToken[a]))

\* C14 as stated: of all acquire() calls made on one Locks instance, at most
\* one has a claim request outstanding, and none has two.
C14_InstanceSequential ==
  /\ \A a \in Acquires : inFlight[a] <= 1
  /\ \A a1, a2 \in Acquires :
       (a1 # a2 /\ acqLocks[a1] # 0 /\ acqLocks[a1] = acqLocks[a2]) =>
          inFlight[a1] + inFlight[a2] <= 1

\* C14 amended: one acquire() call never has two claim requests outstanding.
C14_CallSequential ==
  \A a \in Acquires : inFlight[a] <= 1

\* C14 witness: two acquire() calls on the same Locks instance have a claim
\* request outstanding at once, one of them its second.
C14_Witness ==
  \E a1, a2 \in Acquires :
    /\ a1 # a2
    /\ acqLocks[a1] # 0 /\ acqLocks[a1] = acqLocks[a2]
    /\ inFlight[a1] = 1 /\ inFlight[a2] = 1
    /\ requests[a1] >= 2

\* ------------------------------------------ properties, Tunnel side (cont.)

\* no open() call on Tunnel t has ended with a launched subprocess
NeverOpened(t) ==
  \A s \in Setups : callTunnel[s] = t => outcome[s] # "open"

\* C15: a teardown() / close() on a Tunnel that has never opened calls
\* close on no subprocess and leaves nothing to wait for.
C15_CloseUnopenedIsNoop ==
  [][(teardowns' # teardowns /\ (tunnel = 0 \/ NeverOpened(tunnel))) =>
        /\ closeCalls' = closeCalls
        /\ pendingAcks' = pendingAcks
        /\ procState' = procState]_vars

\* C15 witness: teardown() has run, the Tunnel it closes has a failed open()
\* call and no successful one, and no subprocess was asked to close.
C15_Witness ==
  /\ teardowns > 0
  /\ tunnel # 0
  /\ NeverOpened(tunnel)
  /\ \E s \in Setups : callTunnel[s] = tunnel /\ sstate[s] = "ended"
  /\ \A p \in Setups : closeCalls[p] = 0

\* C16 as stated: with tunnels enabled, the promise of setup() is fulfilled
\* only when the open() call of that setup() has opened its tunnel.
C16_SetupFulfilledOnlyWhenOpen ==
  \A s \in Setups :
    (useTunnels /\ setupPromise[s] \in {"fulfilled", "fulfilled_err"}) =>
       outcome[s] = "open"

\* C17 as stated: a Tunnel holds a handle only to a subprocess that has not
\* been closed, and no subprocess is asked to close twice.
C17_HandleOnlyWhileLive ==
  /\ \A t \in Setups :
       tunnelInfo[t] # 0 => procState[tunnelInfo[t]] \in {"live", "closing"}
  /\ \A p \in Setups : closeCalls[p] <= 1

\* C19: BAILED is true exactly when connectFailures has reached
\* MAX_CONNECT_RETRIES.
C19_CircuitIffThreshold ==
  BAILED <=> connectFailures >= MAX_CONNECT_RETRIES

\* C19 witness: the circuit is open and a later failure of another call has
\* pushed the counter past the threshold.
C19_Witness ==
  /\ BAILED
  /\ connectFailures > MAX_CONNECT_RETRIES
  /\ \E s \in Setups : outcome[s] = "bailed"

\* --------------------------------------------- properties, validateConfig

\* C18 as stated: when validateConfig has returned for an argv with
\* sauce_create_tunnels and without sauce_tunnel_id, config.sauceTunnelId is
\* a generated identifier.
C18_TunnelIdGenerated ==
  (vcResult = "returned" /\ vcArgs.sauce_create_tunnels
     /\ ~vcArgs.sauce_tunnel_id) =>
    sauceTunnelId = "generated"

\* ----------------------------------------- properties, throwing callbacks

\* C20 as stated: the callback of an acquire() call is invoked at most once,
\* and once it has been invoked the call is over and posts no claim request.
C20_CallbackAtMostOnce ==
  \A a \in Acquires :
    /\ cbCalls[a] <= 1
    /\ cbCalls[a] = 1 => (acqState[a] = "done" /\ requests[a] = reqAtCallback[a])

====
